---- MODULE Spec2Model ----
(***************************************************************************)
(* Model of the task-state engine of src/app.py (a Streamlit to-do list).  *)
(*                                                                         *)
(* The program's state is st.session_state, a mapping that holds the keys  *)
(* 'todos' (a list of dicts id/text/completed/created_at) and 'next_id'.   *)
(* Each function of the engine is an operator from a session state to the  *)
(* session state it leaves behind; each action of the state machine is one *)
(* call of such a function with inputs drawn from bounded sets.            *)
(*                                                                         *)
(* A str is modelled as the sequence of its Unicode code points, so that   *)
(* str.strip() is computed and not assumed.                                *)
(***************************************************************************)
EXTENDS Integers, Sequences, FiniteSets, TLC

VARIABLES
    session_state,  \* st.session_state: a function from the keys present to their values
    op,             \* history: the last call made, [name, id, text]
    assigned,       \* history: every id a todo of the store has ever carried
    view            \* the result of get_filtered_todos a caller holds: <<>>, or <<result>>

vars == <<session_state, op, assigned, view>>

----------------------------------------------------------------------------
(* Bound of the model, and the one number of the program *)

\* add_todo stops creating once next_id has reached this value
MaxNextId == 4

\* strftime("%Y-%m-%d %H:%M") keeps the minute and drops the seconds
SecondsPerMinute == 60

----------------------------------------------------------------------------
(* Inputs *)

\* the characters str.strip() removes, as code points: every character for
\* which str.isspace() holds. U+0009..U+000D (tab, line feed, vertical tab,
\* form feed, carriage return), U+001C..U+001F (the separators), U+0020
\* (space), U+0085, U+00A0, U+1680, U+2000..U+200A, U+2028, U+2029, U+202F,
\* U+205F and U+3000
Whitespace ==
    (9..13) \cup (28..32) \cup {133, 160, 5760} \cup (8192..8202)
        \cup {8232, 8233, 8239, 8287, 12288}

\* the input strings, as code points: the empty string; a space and a
\* vertical tab (whitespace only); the letter a; a unit separator and the
\* letter a; the letter a and an ideographic space; and the words b and c
\* with a space between them and a space on both sides
Texts ==
    { <<>>,
      <<32, 11>>,
      <<97>>,
      <<31, 97>>,
      <<97, 12288>>,
      <<32, 98, 32, 99, 32>> }

\* the selectors of the filter box, written in ASCII: the source has the Hangul
\* words for "all" (jeonche), "incomplete" (miwanryo) and "completed" (wanryo)
FILTER_ALL == "jeonche"
FILTER_INCOMPLETE == "miwanryo"
FILTER_COMPLETED == "wanryo"

\* the values get_filtered_todos may be called with: the three selectors, and
\* strings that are none of them
FilterTypes == {FILTER_ALL, FILTER_INCOMPLETE, FILTER_COMPLETED, "", "done"}

\* the readings of datetime.now(), in seconds: the last second of one minute
\* and the first of the next
Instants == {SecondsPerMinute - 1, SecondsPerMinute}

\* the ids a caller may pass: every id that can be assigned, and one that never is
Ids == 1..MaxNextId

----------------------------------------------------------------------------
(* Strings *)

RECURSIVE lstrip(_)
\* str.lstrip(): drop the leading whitespace
lstrip(s) ==
    IF s = <<>> THEN <<>>
    ELSE IF Head(s) \in Whitespace THEN lstrip(Tail(s))
    ELSE s

RECURSIVE rstrip(_)
\* str.rstrip(): drop the trailing whitespace
rstrip(s) ==
    IF s = <<>> THEN <<>>
    ELSE IF s[Len(s)] \in Whitespace THEN rstrip(SubSeq(s, 1, Len(s) - 1))
    ELSE s

\* str.strip(): drop the whitespace at both ends, keep the inner whitespace
strip(s) == rstrip(lstrip(s))

\* datetime.now().strftime("%Y-%m-%d %H:%M"): the reading at minute resolution
strftime(now) == now \div SecondsPerMinute

----------------------------------------------------------------------------
(* The engine: one operator per function of src/app.py *)

\* both keys have been set, as they are from the first render pass on
Initialized(ss) == {"todos", "next_id"} \subseteq DOMAIN ss

\* initialize_session_state without the tests for the keys
initialize_session_state_Always(ss) ==
    ("todos" :> <<>>) @@ ("next_id" :> 1)

\* initialize_session_state(): set each key only when it is absent
initialize_session_state(ss) ==
    LET s1 == IF "todos" \notin DOMAIN ss THEN ("todos" :> <<>>) @@ ss ELSE ss
    IN  IF "next_id" \notin DOMAIN s1 THEN ("next_id" :> 1) @@ s1 ELSE s1

\* add_todo taking the id from the length of the list, not from next_id
add_todo_LenId(ss, text, now) ==
    IF strip(text) # <<>>
    THEN LET todo == [id         |-> Len(ss.todos) + 1,
                      text       |-> strip(text),
                      completed  |-> FALSE,
                      created_at |-> strftime(now)]
         IN  [ss EXCEPT !.todos = Append(@, todo), !.next_id = @ + 1]
    ELSE ss

\* add_todo counting on from the largest id of the list, not from next_id
add_todo_MaxId(ss, text, now) ==
    IF strip(text) # <<>>
    THEN LET ids  == {ss.todos[i].id : i \in 1..Len(ss.todos)}
             top  == IF ids = {} THEN 0 ELSE CHOOSE m \in ids : \A k \in ids : k <= m
             todo == [id         |-> top + 1,
                      text       |-> strip(text),
                      completed  |-> FALSE,
                      created_at |-> strftime(now)]
         IN  [ss EXCEPT !.todos = Append(@, todo), !.next_id = top + 2]
    ELSE ss

\* add_todo testing the text itself, not the stripped text
add_todo_RawTest(ss, text, now) ==
    IF text # <<>>
    THEN LET todo == [id         |-> ss.next_id,
                      text       |-> strip(text),
                      completed  |-> FALSE,
                      created_at |-> strftime(now)]
         IN  [ss EXCEPT !.todos = Append(@, todo), !.next_id = @ + 1]
    ELSE ss

\* add_todo putting the new todo in front of the list
add_todo_Prepend(ss, text, now) ==
    IF strip(text) # <<>>
    THEN LET todo == [id         |-> ss.next_id,
                      text       |-> strip(text),
                      completed  |-> FALSE,
                      created_at |-> strftime(now)]
         IN  [ss EXCEPT !.todos = <<todo>> \o @, !.next_id = @ + 1]
    ELSE ss

\* add_todo without the count up of next_id
add_todo_NoIncrement(ss, text, now) ==
    IF strip(text) # <<>>
    THEN LET todo == [id         |-> ss.next_id,
                      text       |-> strip(text),
                      completed  |-> FALSE,
                      created_at |-> strftime(now)]
         IN  [ss EXCEPT !.todos = Append(@, todo)]
    ELSE ss

\* add_todo(text): append a new todo and count up, unless the text is blank
add_todo(ss, text, now) ==
    IF strip(text) # <<>>
    THEN LET todo == [id         |-> ss.next_id,
                      text       |-> strip(text),
                      completed  |-> FALSE,
                      created_at |-> strftime(now)]
         IN  [ss EXCEPT !.todos = Append(@, todo), !.next_id = @ + 1]
    ELSE ss

\* delete_todo removing the todo at the position todo_id, not the one with the id
delete_todo_ByPosition(ss, todo_id) ==
    [ss EXCEPT !.todos =
        IF todo_id \in 1..Len(@)
        THEN SubSeq(@, 1, todo_id - 1) \o SubSeq(@, todo_id + 1, Len(@))
        ELSE @]

\* delete_todo keeping only the todos with a smaller id
delete_todo_KeepSmaller(ss, todo_id) ==
    LET keep(todo) == todo.id < todo_id
    IN  [ss EXCEPT !.todos = SelectSeq(@, keep)]

\* delete_todo(todo_id): rebind todos to the list comprehension of the todos
\* with another id, in their order
delete_todo(ss, todo_id) ==
    LET keep(todo) == todo.id # todo_id
    IN  [ss EXCEPT !.todos = SelectSeq(@, keep)]

\* the loop leaving its variable on the last todo when nothing matched
FirstIndex_LastOnMiss(todos, todo_id) ==
    IF \E i \in 1..Len(todos) : todos[i].id = todo_id
    THEN CHOOSE i \in 1..Len(todos) :
            /\ todos[i].id = todo_id
            /\ \A j \in 1..(i - 1) : todos[j].id # todo_id
    ELSE Len(todos)

\* index of the first todo with this id, 0 when the loop ends without a match
FirstIndex(todos, todo_id) ==
    IF \E i \in 1..Len(todos) : todos[i].id = todo_id
    THEN CHOOSE i \in 1..Len(todos) :
            /\ todos[i].id = todo_id
            /\ \A j \in 1..(i - 1) : todos[j].id # todo_id
    ELSE 0

\* toggle_todo setting completed instead of negating it
toggle_todo_SetTrue(ss, todo_id) ==
    LET i == FirstIndex(ss.todos, todo_id)
    IN  IF i = 0 THEN ss
        ELSE [ss EXCEPT !.todos[i].completed = TRUE]

\* toggle_todo(todo_id): negate completed on the first match, then break
toggle_todo(ss, todo_id) ==
    LET i == FirstIndex(ss.todos, todo_id)
    IN  IF i = 0 THEN ss
        ELSE [ss EXCEPT !.todos[i].completed = ~@]

\* update_todo without the test for a blank text
update_todo_NoBlankTest(ss, todo_id, new_text) ==
    LET i == FirstIndex(ss.todos, todo_id)
    IN  IF i = 0 THEN ss
        ELSE [ss EXCEPT !.todos[i].text = strip(new_text)]

\* update_todo storing the new text as given, not stripped
update_todo_NoStrip(ss, todo_id, new_text) ==
    IF strip(new_text) # <<>>
    THEN LET i == FirstIndex(ss.todos, todo_id)
         IN  IF i = 0 THEN ss
             ELSE [ss EXCEPT !.todos[i].text = new_text]
    ELSE ss

\* update_todo making the edited todo incomplete again
update_todo_ResetsCompleted(ss, todo_id, new_text) ==
    IF strip(new_text) # <<>>
    THEN LET i == FirstIndex(ss.todos, todo_id)
         IN  IF i = 0 THEN ss
             ELSE [ss EXCEPT !.todos[i].text = strip(new_text),
                             !.todos[i].completed = FALSE]
    ELSE ss

\* update_todo(todo_id, new_text): set the stripped text on the first match,
\* unless the new text is blank
update_todo(ss, todo_id, new_text) ==
    IF strip(new_text) # <<>>
    THEN LET i == FirstIndex(ss.todos, todo_id)
         IN  IF i = 0 THEN ss
             ELSE [ss EXCEPT !.todos[i].text = strip(new_text)]
    ELSE ss

\* mark_all_completed leaving the loop after the first todo
mark_all_completed_FirstOnly(ss) ==
    [ss EXCEPT !.todos =
        [i \in 1..Len(@) |-> IF i = 1 THEN [@[i] EXCEPT !.completed = TRUE] ELSE @[i]]]

\* mark_all_completed(): set completed on every todo
mark_all_completed(ss) ==
    [ss EXCEPT !.todos = [i \in 1..Len(@) |-> [@[i] EXCEPT !.completed = TRUE]]]

\* delete_all_todos starting the counter over
delete_all_todos_Reset(ss) == [ss EXCEPT !.todos = <<>>, !.next_id = 1]

\* delete_all_todos(): rebind todos to an empty list, next_id is not touched
delete_all_todos(ss) == [ss EXCEPT !.todos = <<>>]

\* get_filtered_todos selecting the completed todos for both selectors
get_filtered_todos_SamePredicate(ss, filter_type) ==
    LET done(todo) == todo.completed
    IN  IF filter_type = FILTER_COMPLETED
        THEN [list |-> SelectSeq(ss.todos, done), is_todos |-> FALSE]
        ELSE IF filter_type = FILTER_INCOMPLETE
        THEN [list |-> SelectSeq(ss.todos, done), is_todos |-> FALSE]
        ELSE [list |-> ss.todos, is_todos |-> TRUE]

\* get_filtered_todos returning the list for the selector "all" only, and an
\* empty list for a selector it does not know
get_filtered_todos_StrictAll(ss, filter_type) ==
    LET done(todo)    == todo.completed
        notdone(todo) == ~todo.completed
    IN  IF filter_type = FILTER_COMPLETED
        THEN [list |-> SelectSeq(ss.todos, done), is_todos |-> FALSE]
        ELSE IF filter_type = FILTER_INCOMPLETE
        THEN [list |-> SelectSeq(ss.todos, notdone), is_todos |-> FALSE]
        ELSE IF filter_type = FILTER_ALL
        THEN [list |-> ss.todos, is_todos |-> TRUE]
        ELSE [list |-> <<>>, is_todos |-> FALSE]

\* get_filtered_todos(filter_type): the list returned, and whether it is the
\* object st.session_state.todos itself (the else branch returns that object,
\* the two comprehensions build a new list)
get_filtered_todos(ss, filter_type) ==
    LET done(todo)    == todo.completed
        notdone(todo) == ~todo.completed
    IN  IF filter_type = FILTER_COMPLETED
        THEN [list |-> SelectSeq(ss.todos, done), is_todos |-> FALSE]
        ELSE IF filter_type = FILTER_INCOMPLETE
        THEN [list |-> SelectSeq(ss.todos, notdone), is_todos |-> FALSE]
        ELSE [list |-> ss.todos, is_todos |-> TRUE]

\* get_statistics counting the todos that are not completed as completed
get_statistics_Swapped(ss) ==
    LET total     == Len(ss.todos)
        completed == Cardinality({i \in 1..Len(ss.todos) : ~ss.todos[i].completed})
        pending   == total - completed
    IN  [total |-> total, completed |-> completed, pending |-> pending]

\* get_statistics(): total, completed and pending counts
get_statistics(ss) ==
    LET total     == Len(ss.todos)
        completed == Cardinality({i \in 1..Len(ss.todos) : ss.todos[i].completed})
        pending   == total - completed
    IN  [total |-> total, completed |-> completed, pending |-> pending]

----------------------------------------------------------------------------
(* The state machine *)

\* the record kept of the last call
Call(name, id, text) == [name |-> name, id |-> id, text |-> text]

\* the ids carried by the todos of a session state
IdsOf(ss) ==
    IF "todos" \in DOMAIN ss THEN {ss.todos[i].id : i \in 1..Len(ss.todos)} ELSE {}

\* the history kept along a call: the call, and the ids seen so far
Record(name, id, text) ==
    /\ op' = Call(name, id, text)
    /\ assigned' = assigned \cup IdsOf(session_state')

\* before the first render pass st.session_state holds no key
Init ==
    /\ session_state = [k \in {} |-> 0]
    /\ op = Call("start", 0, <<>>)
    /\ assigned = {}
    /\ view = <<>>

\* main(): every render pass starts with initialize_session_state()
Main ==
    /\ session_state' = initialize_session_state(session_state)
    /\ Record("initialize_session_state", 0, <<>>)
    /\ UNCHANGED view

AddTodo ==
    /\ Initialized(session_state)
    /\ \E text \in Texts, now \in Instants :
        /\ strip(text) = <<>> \/ session_state.next_id < MaxNextId
        /\ session_state' = add_todo(session_state, text, now)
        /\ Record("add_todo", 0, text)
        /\ UNCHANGED view

DeleteTodo ==
    /\ Initialized(session_state)
    /\ \E todo_id \in Ids :
        /\ session_state' = delete_todo(session_state, todo_id)
        /\ Record("delete_todo", todo_id, <<>>)
        /\ UNCHANGED view

ToggleTodo ==
    /\ Initialized(session_state)
    /\ \E todo_id \in Ids :
        /\ session_state' = toggle_todo(session_state, todo_id)
        /\ Record("toggle_todo", todo_id, <<>>)
        /\ UNCHANGED view

UpdateTodo ==
    /\ Initialized(session_state)
    /\ \E todo_id \in Ids, new_text \in Texts :
        /\ session_state' = update_todo(session_state, todo_id, new_text)
        /\ Record("update_todo", todo_id, new_text)
        /\ UNCHANGED view

MarkAllCompleted ==
    /\ Initialized(session_state)
    /\ session_state' = mark_all_completed(session_state)
    /\ Record("mark_all_completed", 0, <<>>)
    /\ UNCHANGED view

DeleteAllTodos ==
    /\ Initialized(session_state)
    /\ session_state' = delete_all_todos(session_state)
    /\ Record("delete_all_todos", 0, <<>>)
    /\ UNCHANGED view

Next ==
    \/ Main
    \/ AddTodo
    \/ DeleteTodo
    \/ ToggleTodo
    \/ UpdateTodo
    \/ MarkAllCompleted
    \/ DeleteAllTodos

Spec == Init /\ [][Next]_vars

----------------------------------------------------------------------------
(* A caller of get_filtered_todos that writes to the list it gets *)

\* the dict a caller may append to the list it holds
CallerTodo == [id |-> 0, text |-> <<97>>, completed |-> FALSE, created_at |-> 0]

\* a caller calls get_filtered_todos and keeps the result
GetFilteredTodos ==
    /\ Initialized(session_state)
    /\ view = <<>>
    /\ \E filter_type \in FilterTypes :
          view' = <<get_filtered_todos(session_state, filter_type)>>
    /\ UNCHANGED session_state
    /\ Record("get_filtered_todos", 0, <<>>)

\* the caller appends its dict to the list it holds and lets go of the list:
\* when that list is st.session_state.todos itself, the append is an append to
\* todos (the caller has one dict, and appends it while the store lacks it)
ListAppend ==
    /\ view # <<>>
    /\ CallerTodo.id \notin IdsOf(session_state)
    /\ session_state' =
          IF view[1].is_todos
          THEN [session_state EXCEPT !.todos = Append(@, CallerTodo)]
          ELSE session_state
    /\ view' = <<>>
    /\ Record("list.append", 0, <<>>)

\* the caller pops the last element of the list it holds and lets go of it
ListPop ==
    /\ view # <<>>
    /\ view[1].list # <<>>
    /\ session_state' =
          IF view[1].is_todos
          THEN [session_state EXCEPT !.todos = SubSeq(@, 1, Len(@) - 1)]
          ELSE session_state
    /\ view' = <<>>
    /\ Record("list.pop", 0, <<>>)

\* the engine runs while no caller holds a result; a caller that holds one
\* writes to it before anything else runs
NextView ==
    \/ view = <<>> /\ Next
    \/ GetFilteredTodos
    \/ ListAppend
    \/ ListPop

SpecView == Init /\ [][NextView]_vars

----------------------------------------------------------------------------
(* Shorthands for the formulas below *)

todos == session_state.todos
next_id == session_state.next_id
Ready == Initialized(session_state)

\* the last call was `name`
Called(name) == op.name = name

\* the positions of todos holding the id
Positions(seq, id) == {i \in 1..Len(seq) : seq[i].id = id}

\* s holds something other than whitespace
NonBlank(s) == \E i \in 1..Len(s) : s[i] \notin Whitespace

\* t is s without its leading and trailing whitespace, stated without strip:
\* s is t between two runs of whitespace, and t neither starts nor ends with one
IsTrimOf(t, s) ==
    /\ \E l \in 0..Len(s), r \in 0..Len(s) :
            /\ l + Len(t) + r = Len(s)
            /\ \A i \in 1..l : s[i] \in Whitespace
            /\ \A i \in 1..Len(t) : t[i] = s[l + i]
            /\ \A i \in 1..r : s[l + Len(t) + i] \in Whitespace
    /\ t # <<>> => t[1] \notin Whitespace /\ t[Len(t)] \notin Whitespace

----------------------------------------------------------------------------
(* Identifiers *)

\* the step appended a todo
Created == Ready /\ Len(todos') = Len(todos) + 1

\* the ids of the store increase strictly along the sequence
IdsIncreasing ==
    Ready => \A i \in 1..Len(todos), j \in 1..Len(todos) :
                i < j => todos[i].id < todos[j].id

\* C1: in every reachable state the ids of the todos are pairwise distinct and
\* strictly increasing in insertion order, and the id of a todo is the value
\* next_id held when the todo was created.
C1_IdsIncreasingFromNextId ==
    /\ []IdsIncreasing
    /\ [][Created => todos'[Len(todos')].id = next_id]_vars

\* a third todo has been created after one with a smaller id was deleted
C1_Witness ==
    /\ Ready
    /\ Called("add_todo")
    /\ Len(todos) = 2
    /\ todos[1].id = 1
    /\ todos[2].id = 3

\* next_id lies above every id ever assigned
AboveAssigned == Ready => \A i \in assigned : i < next_id

\* C2: next_id is strictly greater than every id ever assigned, the ids of
\* deleted todos included, so that no create assigns an id used before.
C2_NoIdReuse ==
    /\ []AboveAssigned
    /\ [][Created => todos'[Len(todos')].id \notin assigned]_vars

\* ids 1 and 2 were created, 2 was deleted, and the next create got 3
C2_Witness ==
    /\ Ready
    /\ Called("add_todo")
    /\ assigned = {1, 2, 3}
    /\ IdsOf(session_state) = {1, 3}

\* the id a create of a non-blank text would assign in this session state
IdOfCreate(ss, text, now) ==
    LET after == add_todo(ss, text, now).todos IN after[Len(after)].id

\* C3: delete_all leaves statistics at total = completed = pending = 0 and
\* next_id as it was, so that a create that follows gets an id above every id
\* used before the clear.
C3_DeleteAllKeepsNextId ==
    [][Ready /\ op'.name = "delete_all_todos" =>
        /\ get_statistics(session_state') = [total |-> 0, completed |-> 0, pending |-> 0]
        /\ next_id' = next_id
        /\ \A text \in Texts, now \in Instants :
              NonBlank(text) =>
                \A i \in assigned : IdOfCreate(session_state', text, now) > i
      ]_vars

\* a store that had issued ids 1 and 2 has just been cleared
C3_Witness ==
    /\ Ready
    /\ Called("delete_all_todos")
    /\ assigned = {1, 2}
    /\ next_id = 3
    /\ todos = <<>>

----------------------------------------------------------------------------
(* Texts *)

\* C4: no todo of the store has an empty or whitespace-only text: every stored
\* text is non-empty and is its own whitespace-trimmed form, whatever strings
\* create and update were called with.
C4_NoBlankText ==
    Ready => \A i \in 1..Len(todos) :
                /\ todos[i].text # <<>>
                /\ NonBlank(todos[i].text)
                /\ IsTrimOf(todos[i].text, todos[i].text)

\* update was just called with a blank text on a todo of the store
C4_Witness ==
    /\ Ready
    /\ Called("update_todo")
    /\ ~NonBlank(op.text)
    /\ op.id \in IdsOf(session_state)

\* C5: create with an empty or whitespace-only text changes nothing: the todos
\* (and so the total count) and next_id stay as they were.
C5_BlankCreateNoOp ==
    [][Ready /\ op'.name = "add_todo" /\ ~NonBlank(op'.text) =>
        /\ todos' = todos
        /\ next_id' = next_id
        /\ session_state' = session_state
      ]_vars

\* create was just called with whitespace only on a store that holds todos
C5_Witness ==
    /\ Ready
    /\ Called("add_todo")
    /\ op.text = <<32, 11>>
    /\ Len(todos) = 2
    /\ next_id = 3

----------------------------------------------------------------------------
(* Calls on an id *)

\* C6: delete, toggle and update called with an id no todo of the store has
\* (never assigned, or deleted before) leave the todos and next_id unchanged.
C6_AbsentIdNoOp ==
    [][(/\ Ready
        /\ op'.name \in {"delete_todo", "toggle_todo", "update_todo"}
        /\ op'.id \notin IdsOf(session_state))
        => (/\ todos' = todos
            /\ next_id' = next_id
            /\ session_state' = session_state)
      ]_vars

\* update was just called with a non-blank text and the id of a deleted todo,
\* on a store that still holds another todo
C6_Witness ==
    /\ Ready
    /\ Called("update_todo")
    /\ NonBlank(op.text)
    /\ op.id \in assigned \ IdsOf(session_state)
    /\ todos # <<>>

\* C7: delete is idempotent: a second delete of the same id right after the
\* first changes nothing.
C7_DeleteIdempotent ==
    [][Ready /\ op'.name = "delete_todo" =>
        delete_todo(session_state', op'.id) = session_state'
      ]_vars

\* the first todo of three has been deleted: the id is gone, two others stay
C7_Witness ==
    /\ Ready
    /\ Called("delete_todo")
    /\ op.id = 1
    /\ assigned = {1, 2, 3}
    /\ IdsOf(session_state) = {2, 3}

\* seq without its i-th element
Without(seq, i) == SubSeq(seq, 1, i - 1) \o SubSeq(seq, i + 1, Len(seq))

\* C8: delete of an id of the store removes the todo with that id and nothing
\* else: the other todos stay, with their fields and in their order, and
\* next_id is unchanged.
C8_DeleteRemovesExactlyOne ==
    [][Ready /\ op'.name = "delete_todo" /\ op'.id \in IdsOf(session_state) =>
        /\ Cardinality(Positions(todos, op'.id)) = 1
        /\ \A i \in Positions(todos, op'.id) : todos' = Without(todos, i)
        /\ next_id' = next_id
      ]_vars

\* the middle todo of three has been deleted, the first and the last remain
\* in their order
C8_Witness ==
    /\ Ready
    /\ Called("delete_todo")
    /\ op.id = 2
    /\ Len(todos) = 2
    /\ todos[1].id = 1
    /\ todos[2].id = 3
    /\ todos[1].completed
    /\ todos[2].text = <<98, 32, 99>>

\* after differs from before in the completed flag of position i, and only there
FlippedAt(before, after, i) ==
    /\ Len(after) = Len(before)
    /\ \A j \in 1..Len(before) :
          IF j = i
          THEN /\ after[j].completed = ~before[j].completed
               /\ after[j].id = before[j].id
               /\ after[j].text = before[j].text
               /\ after[j].created_at = before[j].created_at
          ELSE after[j] = before[j]

\* C9: toggle is an involution: a second toggle of the same id right after the
\* first gives back the store as it was before the first; one toggle of an id
\* of the store flips completed on that todo only.
C9_ToggleInvolution ==
    [][Ready /\ op'.name = "toggle_todo" =>
        /\ toggle_todo(session_state', op'.id) = session_state
        /\ next_id' = next_id
        /\ (op'.id \in IdsOf(session_state) =>
              /\ Cardinality(Positions(todos, op'.id)) = 1
              /\ \A i \in Positions(todos, op'.id) : FlippedAt(todos, todos', i))
      ]_vars

\* a completed todo has been toggled back to incomplete, next to a completed one
C9_Witness ==
    /\ Ready
    /\ Called("toggle_todo")
    /\ Len(todos) = 2
    /\ op.id = todos[1].id
    /\ ~todos[1].completed
    /\ todos[2].completed

\* C10: update of an id of the store sets the text of that todo to the new
\* text without its leading and trailing whitespace when that is non-empty,
\* and leaves the text as it was when the new text is empty or whitespace.
C10_UpdateSetsTrimmedText ==
    [][Ready /\ op'.name = "update_todo" /\ op'.id \in IdsOf(session_state) =>
        \A i \in Positions(todos, op'.id) :
            /\ Len(todos') = Len(todos)
            /\ IF NonBlank(op'.text)
               THEN IsTrimOf(todos'[i].text, op'.text)
               ELSE todos'[i].text = todos[i].text
            /\ todos'[i].text # <<>>
            /\ op'.text = <<32, 98, 32, 99, 32>> => todos'[i].text = <<98, 32, 99>>
      ]_vars

\* update with a padded text has just replaced the text of the first todo
C10_Witness ==
    /\ Ready
    /\ Called("update_todo")
    /\ op.text = <<32, 98, 32, 99, 32>>
    /\ Len(todos) = 2
    /\ op.id = todos[1].id
    /\ todos[1].text = <<98, 32, 99>>
    /\ todos[2].text = <<97>>

----------------------------------------------------------------------------
(* Statistics *)

RECURSIVE CountCompleted(_)
\* the number of completed todos of a sequence, counted element by element
CountCompleted(seq) ==
    IF seq = <<>> THEN 0
    ELSE (IF Head(seq).completed THEN 1 ELSE 0) + CountCompleted(Tail(seq))

\* C11: statistics returns total = the number of todos, completed = the number
\* of todos with completed set and pending = total - completed, so that
\* pending + completed = total and none of the three is negative; it returns
\* three numbers and writes nothing to the store.
C11_StatisticsCounts ==
    Ready =>
        LET stats == get_statistics(session_state)
        IN  /\ DOMAIN stats = {"total", "completed", "pending"}
            /\ stats.total = Len(todos)
            /\ stats.completed = CountCompleted(todos)
            /\ stats.pending = stats.total - stats.completed
            /\ stats.pending + stats.completed = stats.total
            /\ stats.total >= 0 /\ stats.completed >= 0 /\ stats.pending >= 0

\* a store of three todos, one of them completed
C11_Witness ==
    /\ Ready
    /\ get_statistics(session_state) = [total |-> 3, completed |-> 1, pending |-> 2]

----------------------------------------------------------------------------
(* Filters *)

\* the list get_filtered_todos returns for a selector in the current state
filtered(filter_type) == get_filtered_todos(session_state, filter_type).list

\* C12: right after mark_all_completed the incomplete filter returns the empty
\* sequence and the completed filter returns the whole sequence of todos, the
\* same todos in the same order as before the call.
C12_MarkAllThenFilters ==
    [][Ready /\ op'.name = "mark_all_completed" =>
        /\ get_filtered_todos(session_state', FILTER_INCOMPLETE).list = <<>>
        /\ get_filtered_todos(session_state', FILTER_COMPLETED).list = todos'
        /\ Len(todos') = Len(todos)
        /\ \A i \in 1..Len(todos) :
              /\ todos'[i].id = todos[i].id
              /\ todos'[i].text = todos[i].text
              /\ todos'[i].created_at = todos[i].created_at
              /\ todos'[i].completed
      ]_vars

\* mark_all_completed has just run on a store of three todos
C12_Witness ==
    /\ Ready
    /\ Called("mark_all_completed")
    /\ Len(todos) = 3
    /\ Len(filtered(FILTER_COMPLETED)) = 3
    /\ filtered(FILTER_INCOMPLETE) = <<>>

\* the positions of seq whose completed flag is flag
Flagged(seq, flag) == {i \in 1..Len(seq) : seq[i].completed = flag}

\* the k-th smallest member of a set of positions
Kth(S, k) == CHOOSE i \in S : Cardinality({j \in S : j <= i}) = k

\* sub holds exactly the elements of seq at the positions S, in their order
IsSelection(sub, seq, S) ==
    /\ Len(sub) = Cardinality(S)
    /\ \A k \in 1..Len(sub) : sub[k] = seq[Kth(S, k)]

\* C13: the completed and the incomplete filter return the todos with
\* completed = true and completed = false, each in the order of the store;
\* every todo is in one of the two and in one only; the filter "all" returns
\* every todo in the order of the store.
C13_FiltersPartition ==
    Ready =>
        /\ IsSelection(filtered(FILTER_COMPLETED), todos, Flagged(todos, TRUE))
        /\ IsSelection(filtered(FILTER_INCOMPLETE), todos, Flagged(todos, FALSE))
        /\ Len(filtered(FILTER_COMPLETED)) + Len(filtered(FILTER_INCOMPLETE)) = Len(todos)
        /\ \A i \in 1..Len(todos) :
              (\E k \in 1..Len(filtered(FILTER_COMPLETED)) :
                    filtered(FILTER_COMPLETED)[k] = todos[i])
              # (\E k \in 1..Len(filtered(FILTER_INCOMPLETE)) :
                    filtered(FILTER_INCOMPLETE)[k] = todos[i])
        /\ filtered(FILTER_ALL) = todos

\* three todos, the middle one completed: the incomplete filter returns the
\* first and the third, in that order
C13_Witness ==
    /\ Ready
    /\ Len(todos) = 3
    /\ Flagged(todos, TRUE) = {2}
    /\ filtered(FILTER_INCOMPLETE) = <<todos[1], todos[3]>>
    /\ filtered(FILTER_COMPLETED) = <<todos[2]>>

\* C19: get_filtered_todos called with a value that is neither the completed
\* nor the incomplete selector, a value it does not know included, returns
\* every todo in the order of the store, and so never an empty list for a
\* store that holds todos.
C19_OtherSelectorIsAll ==
    Ready =>
        \A filter_type \in FilterTypes \ {FILTER_COMPLETED, FILTER_INCOMPLETE} :
            /\ filtered(filter_type) = todos
            /\ todos # <<>> => filtered(filter_type) # <<>>

\* a store of completed and incomplete todos, asked with an unknown selector
C19_Witness ==
    /\ Ready
    /\ Len(todos) = 2
    /\ todos[1].completed
    /\ ~todos[2].completed
    /\ "done" \notin {FILTER_ALL, FILTER_COMPLETED, FILTER_INCOMPLETE}
    /\ Len(filtered("done")) = 2

----------------------------------------------------------------------------
(* Frames *)

\* C15: a create with a non-blank text appends one todo at the end, not
\* completed and with the trimmed text, leaves the todos there were as they
\* were and counts next_id up by one; so a todo created after
\* mark_all_completed is incomplete.
C15_CreateAppendsOne ==
    [][Ready /\ op'.name = "add_todo" /\ NonBlank(op'.text) =>
        /\ Len(todos') = Len(todos) + 1
        /\ SubSeq(todos', 1, Len(todos)) = todos
        /\ ~todos'[Len(todos')].completed
        /\ IsTrimOf(todos'[Len(todos')].text, op'.text)
        /\ todos'[Len(todos')].id = next_id
        /\ todos'[Len(todos')].created_at \in {strftime(now) : now \in Instants}
        /\ next_id' = next_id + 1
      ]_vars

\* a third todo has been created behind two completed ones and is incomplete
C15_Witness ==
    /\ Ready
    /\ Called("add_todo")
    /\ NonBlank(op.text)
    /\ Len(todos) = 3
    /\ todos[1].completed
    /\ todos[2].completed
    /\ ~todos[3].completed
    /\ todos[3].id = 3

\* C16: toggle, update and mark_all_completed change neither the number of
\* todos, nor their order, nor an id, nor a created_at, nor next_id; toggle and
\* mark_all_completed change no text and update changes no completed flag; and
\* over any step a todo that stays in the store keeps its created_at.
C16_MutatorsKeepIdentity ==
    [][Ready =>
        /\ op'.name \in {"toggle_todo", "update_todo", "mark_all_completed"} =>
              /\ Len(todos') = Len(todos)
              /\ next_id' = next_id
              /\ \A i \in 1..Len(todos) :
                    /\ todos'[i].id = todos[i].id
                    /\ todos'[i].created_at = todos[i].created_at
                    /\ op'.name # "update_todo" => todos'[i].text = todos[i].text
                    /\ op'.name = "update_todo" => todos'[i].completed = todos[i].completed
        /\ \A i \in 1..Len(todos), j \in 1..Len(todos') :
              todos'[j].id = todos[i].id => todos'[j].created_at = todos[i].created_at
      ]_vars

\* update has just replaced the text of a completed todo created in minute 1,
\* next to a todo created in minute 0
C16_Witness ==
    /\ Ready
    /\ Called("update_todo")
    /\ Len(todos) = 2
    /\ op.id = todos[2].id
    /\ todos[2].completed
    /\ todos[2].created_at = 1
    /\ todos[1].created_at = 0
    /\ todos[2].text = <<98, 32, 99>>
    /\ op.text = <<32, 98, 32, 99, 32>>

\* C17: initialize_session_state sets todos to the empty list and next_id to 1
\* at first use only: run again on an initialised session state it leaves
\* todos and next_id as they are.
C17_InitializeOnce ==
    [][op'.name = "initialize_session_state" =>
        IF Ready
        THEN session_state' = session_state
        ELSE /\ DOMAIN session_state' = {"todos", "next_id"}
             /\ todos' = <<>>
             /\ next_id' = 1
      ]_vars

\* a render pass has just started on a store of two todos
C17_Witness ==
    /\ Ready
    /\ Called("initialize_session_state")
    /\ Len(todos) = 2
    /\ next_id = 4

\* the store holds no more todos than were created
AtMostCreated == Ready => Len(todos) <= next_id - 1

\* C18: the number of todos is at most next_id - 1, and only create makes it
\* larger: delete, toggle, update, mark_all_completed and delete_all do not.
C18_CountBelowNextId ==
    /\ []AtMostCreated
    /\ [][Ready /\ Len(todos') > Len(todos) => op'.name = "add_todo"]_vars
    /\ [][Ready /\ op'.name \in {"delete_todo", "toggle_todo", "update_todo",
                                  "mark_all_completed", "delete_all_todos"}
            => Len(todos') <= Len(todos)]_vars

\* three todos were created, one was deleted
C18_Witness ==
    /\ Ready
    /\ Called("delete_todo")
    /\ next_id = 4
    /\ Len(todos) = 2

----------------------------------------------------------------------------
(* The list returned by get_filtered_todos *)

\* C14: for every selector the list get_filtered_todos returns is not the
\* list of the store: adding an element to it or removing one from it neither
\* adds a todo to the store nor removes one.
C14_ResultIsNotTheStoreList ==
    [][op'.name \in {"list.append", "list.pop"} => session_state' = session_state]_vars

====
